---- MODULE Spec2Model ----
(***************************************************************************)
(* Authentication core of the budget analyzer backend: the token service   *)
(* (generateToken / verifyToken over jsonwebtoken) and the access guard    *)
(* (authenticateToken middleware).                                         *)
(*                                                                         *)
(* Strings that matter are modelled by their structure.  An Authorization  *)
(* header is a sequence of atoms; an atom is a space, a word, or a signed  *)
(* token.  A token carries its payload and a signature that names the key  *)
(* and the payload it was computed over, so that a token whose payload was *)
(* altered after signing no longer matches its signature.                  *)
(***************************************************************************)
EXTENDS Integers, Sequences, FiniteSets, TLC

\* ---- bounds ----
MaxTime == 1          \* the clock runs over 0..MaxTime (seconds)
MaxIssued == 1        \* tokens handed out to clients
MaxHeaderLen == 3     \* atoms in an Authorization header
Lifetime == 1         \* seconds the configured JWT_EXPIRES_IN stands for

UserIds == {1, 2}

\* ---- configuration (auth.ts lines 4-5) ----
FallbackSecret == "your_super_secret_key_here_min_32_chars"
EnvSecrets == {"", "env_secret"}       \* process.env.JWT_SECRET; "" = unset or empty
AttackerKey == "attacker_key"

\* process.env.JWT_SECRET || '<fallback>'
SecretFromEnv(env) == IF env = "" THEN FallbackSecret ELSE env

\* process.env.JWT_EXPIRES_IN || '7d', as a number of seconds
JWT_EXPIRES_IN == Lifetime

\* ---- process start (index.ts) ----
\* the JWT_SECRET line of backend/.env; "" = no such file or line
DotenvFiles == {"", "file_secret"}

\* dotenv.config(): a variable the process already has is kept
dotenvConfig(env, file) == IF env # "" THEN env ELSE file

\* node index.js with osEnv as the JWT_SECRET of the process environment.
\* The imports of index.ts are evaluated before its body: routes/auth.js and
\* with it auth.js (line 4) run first, dotenv.config() after them.
Startup(osEnv, file) ==
  LET secret == SecretFromEnv(osEnv)
      env == dotenvConfig(osEnv, file)
  IN  [JWT_SECRET |-> secret,      \* the constant of auth.ts
       osEnv |-> osEnv, file |-> file,
       env |-> env]                \* process.env.JWT_SECRET once listening

VARIABLES
  JWT_SECRET,   \* the module-level constant of the running process
  now,          \* wall clock, in seconds (Math.floor(Date.now() / 1000))
  issued,       \* tokens returned by generateToken and held by clients
  lastVerify,   \* outcome of the latest direct verifyToken call
  req,          \* the request the guard is handling / has handled
  boot,         \* how the running process was started
  users,        \* rows of the users table
  nextId,       \* next value of the users.id sequence
  handlers,     \* the register / login / me requests of this behaviour
  nextSalt,     \* number of the next salt the random source hands out
  hashLog,      \* direct calls of hashPassword: password and hash returned
  lastCompare   \* outcome of the latest direct verifyPassword call

tokenVars == <<JWT_SECRET, now, issued, lastVerify, req, boot>>
dbVars == <<users, nextId, handlers>>
hashVars == <<nextSalt, hashLog, lastCompare>>
vars == <<JWT_SECRET, now, issued, lastVerify, req, boot,
          users, nextId, handlers, nextSalt, hashLog, lastCompare>>

\* ---- atoms of strings ----
NoPayload == [userId |-> 0, iat |-> 0, exp |-> 0]
NoSig == [key |-> "", over |-> NoPayload]

SP == [k |-> "sp", w |-> " ", payload |-> NoPayload, sig |-> NoSig]
Word(w) == [k |-> "word", w |-> w, payload |-> NoPayload, sig |-> NoSig]
Bearer == Word("Bearer")
Basic == Word("Basic")
Garbage == Word("not.a.jwt")

\* HMAC of a payload under a key
Sign(payload, key) == [key |-> key, over |-> payload]

\* the string header.payload.signature
Jwt(payload, sig) == [k |-> "jwt", w |-> "", payload |-> payload, sig |-> sig]

\* jwt.sign({ userId }, secret, { expiresIn }) at clock t
jwtSign(userId, secret, expiresIn, t) ==
  LET payload == [userId |-> userId, iat |-> t, exp |-> t + expiresIn]
  IN  Jwt(payload, Sign(payload, secret))

\* variant: the token is signed with the placeholder key, whatever is configured
generateToken_FixedKey(userId) ==
  <<jwtSign(userId, FallbackSecret, JWT_EXPIRES_IN, now)>>

\* generateToken(userId): a one-segment string
generateToken(userId) == <<jwtSign(userId, JWT_SECRET, JWT_EXPIRES_IN, now)>>

\* jwt.verify(token, secret) at clock t: the decoded payload, or a throw
Thrown(name) == [threw |-> TRUE, err |-> name, value |-> NoPayload]
Returned(v) == [threw |-> FALSE, err |-> "", value |-> v]

\* variant: expiry is not looked at (ignoreExpiration)
jwtVerify_IgnoreExpiry(token, secret, t) ==
  IF Len(token) # 1 \/ token[1].k # "jwt"
    THEN Thrown("JsonWebTokenError: jwt malformed")
  ELSE IF token[1].sig # Sign(token[1].payload, secret)
    THEN Thrown("JsonWebTokenError: invalid signature")
  ELSE Returned(token[1].payload)

\* variant: the payload is decoded without checking the signature (jwt.decode)
jwtVerify_DecodeOnly(token, secret, t) ==
  IF Len(token) # 1 \/ token[1].k # "jwt"
    THEN Thrown("JsonWebTokenError: jwt malformed")
  ELSE IF t >= token[1].payload.exp
    THEN Thrown("TokenExpiredError: jwt expired")
  ELSE Returned(token[1].payload)

jwtVerify(token, secret, t) ==
  IF Len(token) # 1 \/ token[1].k # "jwt"
    THEN Thrown("JsonWebTokenError: jwt malformed")
  ELSE IF token[1].sig # Sign(token[1].payload, secret)
    THEN Thrown("JsonWebTokenError: invalid signature")
  ELSE IF t >= token[1].payload.exp
    THEN Thrown("TokenExpiredError: jwt expired")
  ELSE Returned(token[1].payload)

\* verifyToken(token): try { return jwt.verify(..) } catch { return null }
Null == [isNull |-> TRUE, userId |-> 0]
Decoded(p) == [isNull |-> FALSE, userId |-> p.userId]

\* variant: only JsonWebTokenError is caught, an expired token's error escapes
verifyToken_CatchSome(token) ==
  LET r == jwtVerify(token, JWT_SECRET, now)
  IN  IF r.threw
        THEN IF r.err = "TokenExpiredError: jwt expired" THEN r ELSE Returned(Null)
        ELSE Returned(Decoded(r.value))

verifyToken(token) ==
  LET r == jwtVerify(token, JWT_SECRET, now)
  IN  IF r.threw THEN Returned(Null) ELSE Returned(Decoded(r.value))


\* ---- JavaScript values the guard handles ----
\* a value that is either undefined or a string
Undefined == [defined |-> FALSE, s |-> <<>>]
Str(s) == [defined |-> TRUE, s |-> s]

\* !v for v: string | undefined
Falsy(v) == ~v.defined \/ v.s = <<>>

\* String.prototype.split(' '): the segments between spaces, empty ones kept
RECURSIVE SplitFrom(_, _, _)
SplitFrom(s, i, cur) ==
  IF i > Len(s) THEN <<cur>>
  ELSE IF s[i] = SP THEN <<cur>> \o SplitFrom(s, i + 1, <<>>)
  ELSE SplitFrom(s, i + 1, Append(cur, s[i]))

Split(s) == SplitFrom(s, 1, <<>>)

\* arr[i] with a zero-based index: undefined past the end
Index(arr, i) == IF i + 1 <= Len(arr) THEN Str(arr[i + 1]) ELSE Undefined

\* ---- the access guard (middleware/auth.ts) ----
NoResponse == [status |-> 0, success |-> FALSE, message |-> ""]

\* a request as express hands it to the middleware chain
NewRequest(authorization) ==
  [ state       |-> "Unauthenticated",
    header      |-> authorization,   \* req.headers['authorization']
    userIdSet   |-> FALSE,           \* req.userId is undefined
    userId      |-> 0,
    sent        |-> 0,               \* responses written to res
    res         |-> NoResponse,
    nextCalls   |-> 0,
    verifyCalls |-> 0,
    token       |-> Undefined,       \* the local `token`
    decoded     |-> Null,            \* the local `decoded`
    threw       |-> FALSE ]          \* an exception left the middleware

NoRequest == [NewRequest(Undefined) EXCEPT !.state = "None"]

\* res.status(code).json({ success: false, message }); return
Reject(r, code, message) ==
  [r EXCEPT !.state = "Rejected",
            !.sent = @ + 1,
            !.res = [status |-> code, success |-> FALSE, message |-> message]]

\* variant: next() is called without attaching the user id
Proceed_NoAttach(r, decoded) ==
  [r EXCEPT !.state = "Authenticated", !.nextCalls = @ + 1]

\* req.userId = decoded.userId; next()
Proceed(r, decoded) ==
  [r EXCEPT !.state = "Authenticated",
            !.userIdSet = TRUE,
            !.userId = decoded.userId,
            !.nextCalls = @ + 1]

\* variant: the first segment is taken instead of the second
ExtractToken_FirstSegment(authHeader) ==
  IF Falsy(authHeader) THEN authHeader ELSE Index(Split(authHeader.s), 0)

\* const token = authHeader && authHeader.split(' ')[1]
ExtractToken(authHeader) ==
  IF Falsy(authHeader) THEN authHeader ELSE Index(Split(authHeader.s), 1)

\* variant: the `return` after the "Access token required" response is missing
authenticateToken_NoReturn(r) ==
  LET token == ExtractToken(r.header)
      r0 == IF Falsy(token)
              THEN Reject([r EXCEPT !.token = token], 401, "Access token required")
              ELSE [r EXCEPT !.token = token]
      result == verifyToken(token.s)
      r1 == [r0 EXCEPT !.verifyCalls = @ + 1, !.decoded = result.value]
  IN  IF result.value.isNull
        THEN Reject(r1, 401, "Invalid or expired token")
        ELSE Proceed(r1, result.value)

\* variant: an invalid token is logged and the request let through
authenticateToken_LetThrough(r) ==
  LET token == ExtractToken(r.header)
      r0 == [r EXCEPT !.token = token]
  IN  IF Falsy(token)
        THEN Reject(r0, 401, "Access token required")
      ELSE
        LET result == verifyToken(token.s)
            r1 == [r0 EXCEPT !.verifyCalls = @ + 1, !.decoded = result.value]
        IN  Proceed(r1, result.value)

\* variant: an invalid token is answered 403 Forbidden
authenticateToken_Forbidden(r) ==
  LET token == ExtractToken(r.header)
      r0 == [r EXCEPT !.token = token]
  IN  IF Falsy(token)
        THEN Reject(r0, 401, "Access token required")
      ELSE
        LET result == verifyToken(token.s)
            r1 == [r0 EXCEPT !.verifyCalls = @ + 1, !.decoded = result.value]
        IN  IF result.value.isNull
              THEN Reject(r1, 403, "Invalid or expired token")
              ELSE Proceed(r1, result.value)

authenticateToken(r) ==
  LET authHeader == r.header
      token == ExtractToken(authHeader)
      r0 == [r EXCEPT !.token = token]
  IN  IF Falsy(token)
        THEN Reject(r0, 401, "Access token required")
      ELSE
        LET result == verifyToken(token.s)
            r1 == [r0 EXCEPT !.verifyCalls = @ + 1]
        IN  IF result.threw
              THEN [r1 EXCEPT !.state = "Threw", !.threw = TRUE]
            ELSE
              LET decoded == result.value
                  r2 == [r1 EXCEPT !.decoded = decoded]
              IN  IF decoded.isNull
                    THEN Reject(r2, 401, "Invalid or expired token")
                  ELSE Proceed(r2, decoded)

\* ---- what a client can put into a header ----
IssuedAtoms == {t[1] : t \in issued}

\* a held token with its payload rewritten and the old signature kept
Tampered ==
  {Jwt([a.payload EXCEPT !.userId = u], a.sig) : a \in IssuedAtoms, u \in UserIds}
    \cup {Jwt([a.payload EXCEPT !.exp = MaxTime + 1], a.sig) : a \in IssuedAtoms}

\* a token minted by someone who does not hold the secret, never expiring
\* within the clock's range
Forged == {jwtSign(1, AttackerKey, MaxTime + 1, 0)}

PresentableAtoms == IssuedAtoms \cup Tampered \cup Forged \cup {Garbage}

SeqsUpTo(S, n) == UNION {[1..k -> S] : k \in 0..n}

HeadersWith(a) == {Str(s) : s \in SeqsUpTo({SP, Bearer, Basic, a}, MaxHeaderLen)}

Headers == {Undefined} \cup UNION {HeadersWith(a) : a \in PresentableAtoms}

TokenStrings == {<<a>> : a \in PresentableAtoms} \cup {<<>>, <<Garbage, Garbage>>}

\* ---- the credential hasher (auth.ts lines 7-19) ----
\* A password is known by the bytes bcrypt reads and the bytes after them:
\* head names the content of its first BcryptMaxBytes bytes, tail the
\* content of the rest ("" when there is no rest), len its length.
BcryptMaxBytes == 72
saltRounds == 10

Pw(len, head, tail) == [len |-> len, head |-> head, tail |-> tail]

Empty == Pw(0, "", "")
Short == Pw(5, "abcde", "")               \* below the register minimum
Secret1 == Pw(7, "secret1", "")
Secret2 == Pw(7, "secret2", "")
LongA == Pw(BcryptMaxBytes + 1, "x...x", "A")   \* 72 equal bytes, then A
LongB == Pw(BcryptMaxBytes + 1, "x...x", "B")   \* the same 72 bytes, then B

Passwords == {Short, Secret1, Secret2, LongA, LongB}

Min(a, b) == IF a < b THEN a ELSE b

\* the bytes of the password that enter the bcrypt key schedule
BcryptKey(password) ==
  [len |-> Min(password.len, BcryptMaxBytes), head |-> password.head]

\* the 23-byte digest bcrypt computes from key, salt and cost
BcryptDigest(password, salt, cost) ==
  [key |-> BcryptKey(password), salt |-> salt, cost |-> cost]

\* the string $2b$<cost>$<salt><digest>
HashString(cost, salt, digest) ==
  [wellFormed |-> TRUE, cost |-> cost, salt |-> salt, digest |-> digest]

\* a string that is no bcrypt hash
MalformedHash ==
  [wellFormed |-> FALSE, cost |-> 0, salt |-> 0,
   digest |-> BcryptDigest(Empty, 0, 0)]

\* bcrypt.hash(password, rounds) with the salt the random source produced
bcryptHash(password, rounds, salt) ==
  HashString(rounds, salt, BcryptDigest(password, salt, rounds))

\* bcrypt.compare(password, hash)
bcryptCompare(password, hash) ==
  /\ hash.wellFormed
  /\ BcryptDigest(password, hash.salt, hash.cost) = hash.digest

\* variant: a salt fixed in the code is passed instead of the rounds
hashPassword_FixedSalt(password, salt) == bcryptHash(password, saltRounds, 0)

\* hashPassword(password); salt is what bcrypt.genSalt drew for this call
hashPassword(password, salt) == bcryptHash(password, saltRounds, salt)

\* verifyPassword(password, hash)
verifyPassword(password, hash) == bcryptCompare(password, hash)

\* ---- the users table (CREATE TABLE users) ----
NoRow ==
  [id |-> 0, email |-> "", password_hash |-> MalformedHash,
   name |-> "null", created_at |-> 0]

\* variant: the WHERE clause is missing
EmailRows_AnyRow(table, email) == table

\* the rows of a table with the given email
EmailRows(table, email) == {row \in table : row.email = email}

\* SELECT ... FROM users WHERE email = $1
SelectByEmail(email) == EmailRows(users, email)

\* SELECT ... FROM users WHERE id = $1
SelectById(id) == {row \in users : row.id = id}

\* INSERT INTO users (email, password_hash, name) VALUES ... RETURNING ...
\* id SERIAL draws from the sequence, email UNIQUE may refuse the row
\* variant: the email column is declared without UNIQUE
Insert_NoUnique(table, seq, t, email, passwordHash, name) ==
  LET row == [id |-> seq, email |-> email,
              password_hash |-> passwordHash, name |-> name,
              created_at |-> t]
  IN  [error |-> "", row |-> row, table |-> table \cup {row}]

\* executed on a table whose id sequence stands at seq, at clock t: the
\* error thrown or the row returned, and the table afterwards
Insert(table, seq, t, email, passwordHash, name) ==
  IF EmailRows(table, email) # {}
    THEN [error |-> "unique_violation", row |-> NoRow, table |-> table]
    ELSE LET row == [id |-> seq, email |-> email,
                     password_hash |-> passwordHash, name |-> name,
                     created_at |-> t]
         IN  [error |-> "", row |-> row, table |-> table \cup {row}]

\* variant: INSERT ... ON CONFLICT (email) DO UPDATE SET password_hash
InsertUser_Upsert(email, passwordHash, name) ==
  IF EmailRows(users, email) = {}
    THEN Insert(users, nextId, now, email, passwordHash, name)
    ELSE LET old == CHOOSE row \in EmailRows(users, email) : TRUE
             new == [old EXCEPT !.password_hash = passwordHash]
         IN  [error |-> "", row |-> new, table |-> (users \ {old}) \cup {new}]

InsertUser(email, passwordHash, name) ==
  Insert(users, nextId, now, email, passwordHash, name)

\* result.rows[0]
FirstRow(rows) == IF rows = {} THEN NoRow ELSE CHOOSE row \in rows : TRUE

\* ---- request bodies and their validation (zod schemas) ----
ValidEmails == {"a@b.com", "c@d.com"}
Emails == ValidEmails \cup {"not-an-email"}

\* the bodies sent to /register and /login: every pair of a well-formed
\* email and a password of six bytes or more, and one body for each way of
\* failing a schema
Body(email, password) == [email |-> email, password |-> password]
Bodies ==
  {Body(e, p) : e \in ValidEmails, p \in {Secret1, Secret2}}
    \cup {Body("not-an-email", Secret1), Body("a@b.com", Short),
          Body("a@b.com", Empty)}

\* z.string().email()
IsEmail(e) == e \in ValidEmails

\* variant: register asks for a non-empty password only
RegisterValid_NonEmpty(email, password) == IsEmail(email) /\ password.len >= 1

\* RegisterSchema.parse succeeds
RegisterValid(email, password) == IsEmail(email) /\ password.len >= 6

\* variant: login asks for eight bytes
LoginValid_Min8(email, password) == IsEmail(email) /\ password.len >= 8

\* LoginSchema.parse succeeds
LoginValid(email, password) == IsEmail(email) /\ password.len >= 1

\* ---- responses ----
NoUser ==
  [fields |-> {}, id |-> 0, email |-> "", name |-> "", created_at |-> 0,
   password_hash |-> MalformedHash]

\* the columns a query returned, as the object put into the response
UserFields(row, fields) ==
  [fields     |-> fields,
   id         |-> IF "id" \in fields THEN row.id ELSE 0,
   email      |-> IF "email" \in fields THEN row.email ELSE "",
   name       |-> IF "name" \in fields THEN row.name ELSE "",
   created_at |-> IF "created_at" \in fields THEN row.created_at ELSE 0,
   password_hash |-> IF "password_hash" \in fields THEN row.password_hash
                     ELSE MalformedHash]

Response(status, success, message) ==
  [status |-> status, success |-> success, message |-> message,
   hasErrors |-> FALSE, hasToken |-> FALSE, token |-> <<>>, user |-> NoUser]

NoAnswer == Response(0, FALSE, "")

\* ---- the register / login / me handlers (routes/auth.ts) ----
MaxRequests == 3      \* requests handled in one behaviour
MaxInFlight == 2      \* requests being handled at the same time

NoHandler ==
  [ kind          |-> "none",
    pc            |-> "idle",
    after         |-> {},          \* requests answered before this one came
    at            |-> 0,           \* clock when the guard ran
    email         |-> "",
    password      |-> Empty,
    header        |-> Undefined,
    guard         |-> NoRequest,   \* the request as the guard left it
    found         |-> FALSE,       \* rows.length > 0 of the lookup
    user          |-> NoRow,       \* the local `user`
    passwordHash  |-> MalformedHash,
    passwordMatch |-> FALSE,
    insertError   |-> "",
    caught        |-> "",          \* message of the error the catch block got
    selectCalls   |-> 0,
    hashCalls     |-> 0,
    insertCalls   |-> 0,
    compareCalls  |-> 0,
    tokenCalls    |-> 0,
    sent          |-> 0,
    res           |-> NoAnswer ]

\* res.status(..).json(..); return
Respond(h, response) ==
  [h EXCEPT !.pc = "done", !.sent = @ + 1, !.res = response]

\* the response bodies the handlers send
ValidationError ==
  [Response(400, FALSE, "Validation error") EXCEPT !.hasErrors = TRUE]
EmailExists == Response(400, FALSE, "Email already exists")
InternalError == Response(500, FALSE, "Internal server error")
InvalidCredentials == Response(401, FALSE, "Invalid email or password")
UserNotFound == Response(404, FALSE, "User not found")
\* variant: a registration is answered 200 like the other successes
Created_Status200(row) ==
  [Response(200, TRUE, "User registered successfully")
     EXCEPT !.user = UserFields(row, {"id", "email", "created_at"})]

Created(row) ==
  [Response(201, TRUE, "User registered successfully")
     EXCEPT !.user = UserFields(row, {"id", "email", "created_at"})]
\* variant: the row the lookup returned is passed on as it is
LoginOk_WholeRow(token, row) ==
  [Response(200, TRUE, "Login successful")
     EXCEPT !.hasToken = TRUE, !.token = token,
            !.user = UserFields(row, {"id", "email", "password_hash"})]

LoginOk(token, row) ==
  [Response(200, TRUE, "Login successful")
     EXCEPT !.hasToken = TRUE, !.token = token,
            !.user = UserFields(row, {"id", "email"})]
MeOk(row) ==
  [Response(200, TRUE, "")
     EXCEPT !.user = UserFields(row, {"id", "email", "name", "created_at"})]

\* variant: the catch block passes the error's message on
Caught_ErrorMessage(h, error) ==
  Respond([h EXCEPT !.caught = error], Response(500, FALSE, error))

\* the catch block for an error that is no ZodError: the error is logged,
\* the response is the fixed one
Caught(h, error) == Respond([h EXCEPT !.caught = error], InternalError)

\* -- POST /register --
\* RegisterSchema.parse(req.body), then the existence query is sent
\* variant: the existence query runs before the body is parsed
registerStart_QueryFirst(h) ==
  IF RegisterValid(h.email, h.password)
    THEN [h EXCEPT !.pc = "select", !.selectCalls = @ + 1]
    ELSE Respond([h EXCEPT !.selectCalls = @ + 1], ValidationError)

registerStart(h) ==
  IF RegisterValid(h.email, h.password)
    THEN [h EXCEPT !.pc = "select", !.selectCalls = @ + 1]
    ELSE Respond(h, ValidationError)

\* variant: the existence check is left to the unique constraint
registerSelected_NoPrecheck(h, rows) ==
  [h EXCEPT !.pc = "hash", !.found = rows # {}, !.hashCalls = @ + 1]

\* variant: the password is hashed before the result of the check is looked at
registerSelected_HashFirst(h, rows) ==
  IF rows # {}
    THEN Respond([h EXCEPT !.found = TRUE, !.hashCalls = @ + 1], EmailExists)
    ELSE [h EXCEPT !.pc = "hash", !.hashCalls = @ + 1]

\* existingUser has arrived: conflict, or hashPassword is called
registerSelected(h, rows) ==
  IF rows # {}
    THEN Respond([h EXCEPT !.found = TRUE], EmailExists)
    ELSE [h EXCEPT !.pc = "hash", !.hashCalls = @ + 1]

\* passwordHash has arrived: the INSERT is sent
registerHashed(h, hash) ==
  [h EXCEPT !.passwordHash = hash, !.pc = "insert", !.insertCalls = @ + 1]

\* the INSERT returned a row, or threw and the catch block answers
registerInserted(h, result) ==
  IF result.error # ""
    THEN Caught([h EXCEPT !.insertError = result.error], result.error)
    ELSE Respond([h EXCEPT !.user = result.row], Created(result.row))

\* -- POST /login --
\* LoginSchema.parse(req.body), then the lookup is sent
loginStart(h) ==
  IF LoginValid(h.email, h.password)
    THEN [h EXCEPT !.pc = "select", !.selectCalls = @ + 1]
    ELSE Respond(h, ValidationError)

\* variant: an unknown email is told apart
loginSelected_NotFound(h, rows) ==
  IF rows = {}
    THEN Respond(h, UserNotFound)
    ELSE [h EXCEPT !.found = TRUE, !.user = FirstRow(rows), !.pc = "verify",
                   !.compareCalls = @ + 1]

\* variant: the handler returns on an unknown email without answering
loginSelected_Silent(h, rows) ==
  IF rows = {}
    THEN [h EXCEPT !.pc = "done"]
    ELSE [h EXCEPT !.found = TRUE, !.user = FirstRow(rows), !.pc = "verify",
                   !.compareCalls = @ + 1]

\* the lookup has arrived: unknown email, or verifyPassword is called
loginSelected(h, rows) ==
  IF rows = {}
    THEN Respond(h, InvalidCredentials)
    ELSE [h EXCEPT !.found = TRUE, !.user = FirstRow(rows), !.pc = "verify",
                   !.compareCalls = @ + 1]

\* variant: the token is issued whatever verifyPassword answered
loginVerified_NoCheck(h, match, token) ==
  Respond([h EXCEPT !.passwordMatch = match, !.tokenCalls = @ + 1],
          LoginOk(token, h.user))

\* passwordMatch has arrived: mismatch, or the token is returned
\* (token is generateToken(user.id), made only on a match)
loginVerified(h, match, token) ==
  IF ~match
    THEN Respond([h EXCEPT !.passwordMatch = FALSE], InvalidCredentials)
    ELSE Respond([h EXCEPT !.passwordMatch = TRUE, !.tokenCalls = @ + 1],
                 LoginOk(token, h.user))

\* -- GET /me --
\* the guard's answer as a response of this route
GuardAnswer(r) == Response(r.res.status, r.res.success, r.res.message)

\* variant: the route is mounted without the middleware
meStart_NoGuard(h) ==
  [h EXCEPT !.at = now, !.pc = "select", !.selectCalls = @ + 1]

\* authenticateToken runs; on next() the handler sends its lookup
meStart(h) ==
  LET guarded == authenticateToken(NewRequest(h.header))
  IN  IF guarded.nextCalls > 0
        THEN [h EXCEPT !.guard = guarded, !.at = now, !.pc = "select",
                       !.selectCalls = @ + 1]
        ELSE [h EXCEPT !.guard = guarded, !.at = now, !.pc = "done",
                       !.sent = guarded.sent, !.res = GuardAnswer(guarded)]

\* variant: a missing user is answered like a bad token
meSelected_Unauthorized(h, rows) ==
  IF rows = {}
    THEN Respond(h, Response(401, FALSE, "Invalid or expired token"))
    ELSE Respond([h EXCEPT !.found = TRUE, !.user = FirstRow(rows)],
                 MeOk(FirstRow(rows)))

\* the lookup by req.userId has arrived
meSelected(h, rows) ==
  IF rows = {}
    THEN Respond(h, UserNotFound)
    ELSE Respond([h EXCEPT !.found = TRUE, !.user = FirstRow(rows)],
                 MeOk(FirstRow(rows)))

\* the headers sent to /me: none, or Bearer and some token-like string
MeHeaders ==
  {Undefined} \cup {Str(<<Bearer, SP, a>>) : a \in PresentableAtoms}

NoCompare == [called |-> FALSE, password |-> Empty, hash |-> MalformedHash,
              result |-> FALSE]

\* ---- actions ----
NoVerify == [called |-> FALSE, token |-> <<>>, at |-> 0, result |-> Returned(Null)]

Init ==
  /\ \E env \in EnvSecrets :
       /\ boot = Startup(env, "")
       /\ JWT_SECRET = boot.JWT_SECRET
  /\ now = 0
  /\ issued = {}
  /\ lastVerify = NoVerify
  /\ req = NoRequest
  /\ users = {}
  /\ nextId = 1
  /\ handlers = [h \in 1..MaxRequests |-> NoHandler]
  /\ nextSalt = 1
  /\ hashLog = <<>>
  /\ lastCompare = NoCompare

\* a second of wall-clock time passes
Tick ==
  /\ now < MaxTime
  /\ now' = now + 1
  /\ UNCHANGED <<JWT_SECRET, issued, lastVerify, req, boot>>
  /\ UNCHANGED <<dbVars, hashVars>>

\* the process is started again and auth.ts re-reads its configuration
Restart(env) ==
  /\ req.state # "Unauthenticated"
  /\ \E file \in DotenvFiles :
       /\ boot' = Startup(env, file)
       /\ JWT_SECRET' = boot'.JWT_SECRET
  /\ lastVerify' = NoVerify
  /\ UNCHANGED <<now, issued, req>>
  /\ UNCHANGED <<dbVars, hashVars>>

\* generateToken(userId) is called and the token handed to the client
IssueToken(userId) ==
  /\ Cardinality(issued \cup {generateToken(userId)}) <= MaxIssued
  /\ issued' = issued \cup {generateToken(userId)}
  /\ UNCHANGED <<JWT_SECRET, now, lastVerify, req, boot>>
  /\ UNCHANGED <<dbVars, hashVars>>

\* verifyToken(token) is called on some string
VerifyToken(token) ==
  /\ lastVerify' = [called |-> TRUE, token |-> token, at |-> now,
                    result |-> verifyToken(token)]
  /\ UNCHANGED <<JWT_SECRET, now, issued, req, boot>>
  /\ UNCHANGED <<dbVars, hashVars>>

\* a request for a guarded route arrives
Arrive ==
  /\ req.state = "None"
  /\ \E authorization \in Headers : req' = NewRequest(authorization)
  /\ UNCHANGED <<JWT_SECRET, now, issued, lastVerify, boot>>
  /\ UNCHANGED <<dbVars, hashVars>>

\* express runs the middleware on the request
Guard ==
  /\ req.state = "Unauthenticated"
  /\ req' = authenticateToken(req)
  /\ UNCHANGED <<JWT_SECRET, now, issued, lastVerify, boot>>
  /\ UNCHANGED <<dbVars, hashVars>>

\* the request is over and its context is dropped
Complete ==
  /\ req.state \in {"Authenticated", "Rejected", "Threw"}
  /\ req' = NoRequest
  /\ UNCHANGED <<JWT_SECRET, now, issued, lastVerify, boot>>
  /\ UNCHANGED <<dbVars, hashVars>>

TokenNext ==
  \/ Tick
  \/ \E env \in EnvSecrets : Restart(env)
  \/ \E u \in UserIds : IssueToken(u)
  \/ \E t \in TokenStrings : VerifyToken(t)

TokenSpec == Init /\ [][TokenNext]_vars

Next ==
  \/ Tick
  \/ \E env \in EnvSecrets : Restart(env)
  \/ \E u \in UserIds : IssueToken(u)
  \/ Arrive
  \/ Guard
  \/ Complete

Spec == Init /\ [][Next]_vars

\* ---- reading a header the way the HTTP scheme describes it ----
\* position of the first space of s, Len(s) + 1 when there is none
FirstSpace(s) ==
  CHOOSE i \in 1..(Len(s) + 1) :
    /\ i = Len(s) + 1 \/ s[i] = SP
    /\ \A j \in 1..(i - 1) : s[j] # SP

\* the atoms before the first space: the scheme
SchemeOf(s) == SubSeq(s, 1, FirstSpace(s) - 1)

\* the atoms after the first space, up to the next space: the token segment
SegmentOf(s) ==
  LET rest == SubSeq(s, FirstSpace(s) + 1, Len(s))
  IN  SubSeq(rest, 1, FirstSpace(rest) - 1)

PresentsToken(h) == h.defined /\ SegmentOf(h.s) # <<>>

Handled(r) == r.state \notin {"None", "Unauthenticated"}

\* the step in which the guard handles the request
GuardStep == req.state = "Unauthenticated" /\ req'.state # "Unauthenticated"

AccessTokenRequired ==
  [status |-> 401, success |-> FALSE, message |-> "Access token required"]
InvalidOrExpired ==
  [status |-> 401, success |-> FALSE, message |-> "Invalid or expired token"]

ValidlySigned(a) == a.k = "jwt" /\ a.sig = Sign(a.payload, JWT_SECRET)

\* ---- claims about the access guard ----

C3_ValidTokenAttached ==
  [][ ( /\ GuardStep
        /\ PresentsToken(req.header)
        /\ ~verifyToken(SegmentOf(req.header.s)).value.isNull )
      => ( /\ req'.state = "Authenticated"
           /\ req'.userIdSet
           /\ req'.userId = SegmentOf(req.header.s)[1].payload.userId
           /\ req'.nextCalls = 1
           /\ req'.sent = 0
           /\ req'.res = NoResponse ) ]_vars

\* a Bearer request was authenticated as user 2
C3_Witness ==
  /\ req.state = "Authenticated"
  /\ req.userIdSet
  /\ req.userId = 2
  /\ SchemeOf(req.header.s) = <<Bearer>>
  /\ req.token.s \in issued

C4_Shape ==
  /\ req.state \in {"None", "Unauthenticated", "Authenticated", "Rejected"}
  /\ req.state \in {"None", "Unauthenticated"} =>
       req.nextCalls = 0 /\ req.sent = 0 /\ ~req.userIdSet
  /\ req.state = "Authenticated" => req.nextCalls = 1 /\ req.sent = 0
  /\ req.state = "Rejected" =>
       req.sent = 1 /\ req.res.status = 401 /\ req.nextCalls = 0

C4_Steps ==
  /\ req.state = "None" => req'.state \in {"None", "Unauthenticated"}
  /\ req.state = "Unauthenticated" =>
       req' = req \/ req'.state \in {"Authenticated", "Rejected"}
  /\ req.state \in {"Authenticated", "Rejected"} =>
       req' = req \/ req' = NoRequest

\* C4: a request enters the guard Unauthenticated and ends in exactly one of
\* Authenticated (next called once, nothing sent) or Rejected (one 401 sent,
\* next not called); a terminal request stays as it is until it is dropped.
C4_GuardStateMachine == [](C4_Shape) /\ [][C4_Steps]_vars

\* a request without any header ended Rejected, one response, next not called
C4_Witness ==
  /\ req.state = "Rejected"
  /\ ~req.header.defined
  /\ req.sent = 1
  /\ req.nextCalls = 0

\* C5: a request is authenticated only if the scheme of its header, the
\* part before the first space, is the word Bearer.
C5_OnlyBearerAuthenticates ==
  req.state = "Authenticated" => SchemeOf(req.header.s) = <<Bearer>>

\* C6: every rejection by the guard has status 401 and success false; the
\* message alone tells a missing token (verifyToken not called) from an
\* invalid one (verifyToken called).
C6_RejectionsAlike ==
  req.state = "Rejected" =>
    /\ req.res.status = 401
    /\ req.res.success = FALSE
    /\ req.verifyCalls \in {0, 1}
    /\ req.verifyCalls = 0 <=> req.res.message = "Access token required"
    /\ req.verifyCalls = 1 <=> req.res.message = "Invalid or expired token"
    /\ DOMAIN req.res = {"status", "success", "message"}

\* a token signed by someone else was rejected with 401
C6_Witness ==
  /\ req.state = "Rejected"
  /\ req.verifyCalls = 1
  /\ req.res.status = 401
  /\ req.token.s \in {<<a>> : a \in Forged}

\* ---- claims about the token service ----
Accepted(v) == v.called /\ ~v.result.threw /\ ~v.result.value.isNull
Refused(v) == v.called /\ v.result = Returned(Null)
IsJwt(t) == Len(t) = 1 /\ t[1].k = "jwt"

\* C7: a token just made by generateToken(u) verifies, under the same
\* secret, to a decoded identity whose userId is u.
C7_RoundTrip ==
  /\ \A u \in UserIds :
       verifyToken(generateToken(u)) = Returned([isNull |-> FALSE, userId |-> u])
  /\ ( /\ lastVerify.called
       /\ lastVerify.token \in issued
       /\ lastVerify.token[1].payload.iat = lastVerify.at
       /\ lastVerify.token[1].sig.key = JWT_SECRET )
     => ( /\ Accepted(lastVerify)
          /\ lastVerify.result.value.userId = lastVerify.token[1].payload.userId )

\* the token of user 2 was verified in the second it was issued
C7_Witness ==
  /\ Accepted(lastVerify)
  /\ lastVerify.token \in issued
  /\ lastVerify.token[1].payload.iat = lastVerify.at
  /\ lastVerify.at = now
  /\ lastVerify.result.value.userId = 2

\* C8: verifyToken returns null for a token whose expiry has been reached,
\* whatever its signature; it accepts a token only before issuedAt plus the
\* configured lifetime.
C8_ExpiryEnforced ==
  /\ ( /\ lastVerify.called
       /\ IsJwt(lastVerify.token)
       /\ lastVerify.at >= lastVerify.token[1].payload.exp )
     => Refused(lastVerify)
  /\ Accepted(lastVerify) =>
       lastVerify.at < lastVerify.token[1].payload.iat + JWT_EXPIRES_IN

\* an issued, correctly signed token was refused once its expiry was reached
C8_Witness ==
  /\ Refused(lastVerify)
  /\ lastVerify.token \in issued
  /\ ValidlySigned(lastVerify.token[1])
  /\ lastVerify.at >= lastVerify.token[1].payload.exp

\* C9: verifyToken returns null for a token signed under another secret
\* than the configured one; after the secret changed, for every token issued
\* before.
C9_OtherSecretRefused ==
  /\ ( /\ lastVerify.called
       /\ IsJwt(lastVerify.token)
       /\ lastVerify.token[1].sig.key # JWT_SECRET )
     => Refused(lastVerify)
  /\ \A t \in issued :
       t[1].sig.key # JWT_SECRET => verifyToken(t) = Returned(Null)

\* an unexpired token issued under the former secret was refused
C9_Witness ==
  /\ Refused(lastVerify)
  /\ lastVerify.token \in issued
  /\ lastVerify.token[1].sig.key # JWT_SECRET
  /\ lastVerify.at < lastVerify.token[1].payload.exp

\* C10: verifyToken never throws; whenever jwt.verify fails, for whatever
\* reason, the caller gets the same value null.
C10_NeverThrows ==
  lastVerify.called =>
    /\ ~lastVerify.result.threw
    /\ jwtVerify(lastVerify.token, JWT_SECRET, lastVerify.at).threw
         => lastVerify.result = Returned(Null)
    /\ \A t \in TokenStrings : ~verifyToken(t).threw

\* a string that is no token at all was answered null
C10_Witness ==
  /\ Refused(lastVerify)
  /\ lastVerify.token = <<Garbage, Garbage>>
  /\ jwtVerify(lastVerify.token, JWT_SECRET, lastVerify.at).err
       = "JsonWebTokenError: jwt malformed"

\* ---- the requests to the auth routes ----
Busy(i) == handlers[i].kind # "none" /\ handlers[i].pc # "done"
Done(i) == handlers[i].pc = "done"
Slots == 1..MaxRequests

\* the slot of the next request, and the requests already answered
FreeSlot(i) ==
  /\ handlers[i].kind = "none"
  /\ Cardinality({k \in Slots : Busy(k)}) < MaxInFlight
  /\ \A k \in 1..(i - 1) : handlers[k].kind # "none"
Answered == {k \in Slots : Done(k)}

Incoming(kind, email, password, header) ==
  [NoHandler EXCEPT !.kind = kind, !.email = email, !.password = password,
                    !.header = header, !.after = Answered]

\* POST /register arrives and runs up to its first await
RegisterBegin ==
  \E i \in Slots :
    /\ FreeSlot(i)
    /\ \E body \in Bodies :
         handlers' = [handlers EXCEPT ![i] =
           registerStart(Incoming("register", body.email, body.password, Undefined))]
    /\ UNCHANGED <<users, nextId, tokenVars, hashVars>>

\* the existence query is answered
RegisterSelect(i) ==
  /\ handlers[i].kind = "register" /\ handlers[i].pc = "select"
  /\ handlers' = [handlers EXCEPT ![i] =
       registerSelected(@, SelectByEmail(handlers[i].email))]
  /\ UNCHANGED <<users, nextId, tokenVars, hashVars>>

\* hashPassword resolves
RegisterHash(i) ==
  /\ handlers[i].kind = "register" /\ handlers[i].pc = "hash"
  /\ handlers' = [handlers EXCEPT ![i] =
       registerHashed(@, hashPassword(handlers[i].password, nextSalt))]
  /\ nextSalt' = nextSalt + 1
  /\ UNCHANGED <<users, nextId, hashLog, lastCompare, tokenVars>>

\* the INSERT is executed
RegisterInsert(i) ==
  /\ handlers[i].kind = "register" /\ handlers[i].pc = "insert"
  /\ LET result == InsertUser(handlers[i].email, handlers[i].passwordHash, "null")
     IN  /\ handlers' = [handlers EXCEPT ![i] = registerInserted(@, result)]
         /\ users' = result.table
         /\ nextId' = nextId + 1
  /\ UNCHANGED <<tokenVars, hashVars>>

\* POST /login arrives and runs up to its first await
LoginBegin ==
  \E i \in Slots :
    /\ FreeSlot(i)
    /\ \E body \in Bodies :
         handlers' = [handlers EXCEPT ![i] =
           loginStart(Incoming("login", body.email, body.password, Undefined))]
    /\ UNCHANGED <<users, nextId, tokenVars, hashVars>>

\* the lookup by email is answered
LoginSelect(i) ==
  /\ handlers[i].kind = "login" /\ handlers[i].pc = "select"
  /\ handlers' = [handlers EXCEPT ![i] =
       loginSelected(@, SelectByEmail(handlers[i].email))]
  /\ UNCHANGED <<users, nextId, tokenVars, hashVars>>

\* verifyPassword resolves; on a match the token is made and returned
LoginVerify(i) ==
  /\ handlers[i].kind = "login" /\ handlers[i].pc = "verify"
  /\ LET match == verifyPassword(handlers[i].password,
                                 handlers[i].user.password_hash)
         token == generateToken(handlers[i].user.id)
     IN  /\ handlers' = [handlers EXCEPT ![i] = loginVerified(@, match, token)]
         /\ issued' = IF handlers'[i].res.hasToken
                        THEN issued \cup {handlers'[i].res.token} ELSE issued
  /\ UNCHANGED <<JWT_SECRET, now, lastVerify, req, boot, users, nextId, hashVars>>

\* GET /me arrives: the guard runs, then the handler up to its await
MeBegin ==
  \E i \in Slots :
    /\ FreeSlot(i)
    /\ \E header \in MeHeaders :
         handlers' = [handlers EXCEPT ![i] =
           meStart(Incoming("me", "", Empty, header))]
    /\ UNCHANGED <<users, nextId, tokenVars, hashVars>>

\* the lookup by id is answered
MeSelect(i) ==
  /\ handlers[i].kind = "me" /\ handlers[i].pc = "select"
  /\ handlers' = [handlers EXCEPT ![i] =
       meSelected(@, SelectById(handlers[i].guard.userId))]
  /\ UNCHANGED <<users, nextId, tokenVars, hashVars>>

\* somebody with access to the database deletes a user's row
DeleteUser(id) ==
  /\ SelectById(id) # {}
  /\ users' = users \ SelectById(id)
  /\ UNCHANGED <<nextId, handlers, tokenVars, hashVars>>

AuthNext ==
  \/ Tick
  \/ RegisterBegin
  \/ \E i \in Slots : RegisterSelect(i)
  \/ \E i \in Slots : RegisterHash(i)
  \/ \E i \in Slots : RegisterInsert(i)
  \/ LoginBegin
  \/ \E i \in Slots : LoginSelect(i)
  \/ \E i \in Slots : LoginVerify(i)
  \/ MeBegin
  \/ \E i \in Slots : MeSelect(i)

AuthSpec == Init /\ [][AuthNext]_vars

\* the error a rejected await carries: pool.query fails when the database
\* cannot be reached, bcrypt when its native call fails
AwaitError(pc) ==
  IF pc \in {"select", "insert"}
    THEN "connect ECONNREFUSED 127.0.0.1:5432"
    ELSE "bcrypt: native call failed"

\* the promise request i is waiting for is rejected and the catch block of
\* its handler answers
AwaitFails(i) ==
  /\ handlers[i].pc \in {"select", "hash", "insert", "verify"}
  /\ handlers' = [handlers EXCEPT ![i] = Caught(@, AwaitError(@.pc))]
  /\ UNCHANGED <<users, nextId, tokenVars, hashVars>>

FaultNext ==
  \/ AuthNext
  \/ \E i \in Slots : AwaitFails(i)

FaultSpec == Init /\ [][FaultNext]_vars

\* the call request i is waiting for completes or fails
Settle(i) ==
  \/ RegisterSelect(i) \/ RegisterHash(i) \/ RegisterInsert(i)
  \/ LoginSelect(i) \/ LoginVerify(i)
  \/ MeSelect(i)
  \/ AwaitFails(i)

\* the requests and their awaited calls alone; the clock stands, as no
\* handler waits for it
SettleNext ==
  \/ RegisterBegin
  \/ LoginBegin
  \/ MeBegin
  \/ \E i \in Slots : Settle(i)

\* every awaited query, hash and comparison is settled in the end
FairFaultSpec ==
  Init /\ [][SettleNext]_vars /\ \A i \in Slots : WF_vars(Settle(i))

AuthDeleteNext ==
  \/ AuthNext
  \/ \E id \in 1..MaxRequests : DeleteUser(id)

AuthDeleteSpec == Init /\ [][AuthDeleteNext]_vars

\* ---- claims about registration ----
IsRegister(i) ==
  handlers[i].kind = "register"
    /\ RegisterValid(handlers[i].email, handlers[i].password)
IsLogin(i) ==
  handlers[i].kind = "login"
    /\ LoginValid(handlers[i].email, handlers[i].password)
IsMe(i) == handlers[i].kind = "me"
SameEmail(i, j) == handlers[i].email = handlers[j].email

\* every other registration of i's email came after i was answered
FirstForEmail(i) ==
  \A k \in Slots \ {i} :
    (IsRegister(k) /\ SameEmail(i, k)) => i \in handlers[k].after

\* C11: of two valid registrations of one email handled one after the
\* other, the first is answered 201, the second 400 "Email already
\* exists", and one row with that email exists afterwards.
C11_SecondRegistrationRefused ==
  \A i, j \in Slots :
    ( /\ i # j /\ IsRegister(i) /\ IsRegister(j) /\ SameEmail(i, j)
      /\ Done(i) /\ Done(j)
      /\ FirstForEmail(i) )
    => ( /\ handlers[i].res.status = 201
         /\ handlers[j].res = EmailExists
         /\ handlers[j].sent = 1
         /\ Cardinality(SelectByEmail(handlers[i].email)) = 1 )

\* an email was registered, and registering it again was refused
C11_Witness ==
  \E i, j \in Slots :
    /\ i # j /\ IsRegister(i) /\ IsRegister(j) /\ SameEmail(i, j)
    /\ i \in handlers[j].after
    /\ handlers[i].res.status = 201
    /\ handlers[j].res = EmailExists

\* C12: a registration that fails because its email is registered already,
\* at the existence check or at the insert, is answered 400.
C12_DuplicateAnswered400 ==
  \A i \in Slots :
    ( /\ IsRegister(i) /\ Done(i)
      /\ handlers[i].found \/ handlers[i].insertError = "unique_violation" )
    => ( /\ handlers[i].res.status = 400
         /\ handlers[i].res.message = "Email already exists" )

\* C20: hashPassword is called only after the existence check returned no
\* row, the insert only after the hash; a check that finds a row is
\* answered with the conflict response, with no hash and no insert.
C20_CheckBeforeHashAndInsert ==
  \A i \in Slots :
    handlers[i].kind = "register" =>
      /\ handlers[i].hashCalls > 0 =>
           /\ handlers[i].selectCalls = 1
           /\ handlers[i].pc \in {"hash", "insert", "done"}
           /\ ~handlers[i].found
      /\ handlers[i].insertCalls > 0 =>
           /\ handlers[i].hashCalls = 1
           /\ handlers[i].passwordHash.wellFormed
           /\ handlers[i].pc \in {"insert", "done"}
      /\ (handlers[i].found \/ handlers[i].res = EmailExists) =>
           /\ handlers[i].res = EmailExists
           /\ handlers[i].found
           /\ SelectByEmail(handlers[i].email) # {}
           /\ handlers[i].hashCalls = 0
           /\ handlers[i].insertCalls = 0

\* a registration met an existing row and was answered without hashing
C20_Witness ==
  \E i \in Slots :
    /\ handlers[i].kind = "register"
    /\ handlers[i].found
    /\ handlers[i].res = EmailExists
    /\ handlers[i].hashCalls = 0
    /\ handlers[i].selectCalls = 1

\* ---- claims about login ----
\* the lookup of login i found no row / found a row the password fails on
UnknownEmail(i) == IsLogin(i) /\ Done(i) /\ ~handlers[i].found
WrongPassword(i) ==
  /\ IsLogin(i) /\ Done(i) /\ handlers[i].found
  /\ ~verifyPassword(handlers[i].password, handlers[i].user.password_hash)

\* what the local `found` says about the table
LookupFaithful(i) ==
  /\ handlers[i].found =>
       /\ handlers[i].user \in users
       /\ handlers[i].user.email = handlers[i].email
  /\ (IsLogin(i) /\ Done(i) /\ ~handlers[i].found) =>
       ~\E k \in handlers[i].after :
          /\ IsRegister(k) /\ SameEmail(i, k)
          /\ handlers[k].res.status = 201

\* C13: a login with an unregistered email and a login with a registered
\* email and a wrong password get the same response, 401 with
\* {success: false, message: "Invalid email or password"}.
C13_LoginFailuresAlike ==
  /\ \A i \in Slots :
       (UnknownEmail(i) \/ WrongPassword(i)) =>
         /\ handlers[i].res = InvalidCredentials
         /\ handlers[i].sent = 1
         /\ LookupFaithful(i)
  /\ \A i, j \in Slots :
       (UnknownEmail(i) /\ WrongPassword(j)) => handlers[i].res = handlers[j].res

\* both kinds of failed login were answered
C13_Witness ==
  \E i, j \in Slots :
    /\ UnknownEmail(i) /\ SelectByEmail(handlers[i].email) = {}
    /\ WrongPassword(j) /\ SelectByEmail(handlers[j].email) # {}
    /\ handlers[i].res = handlers[j].res
    /\ handlers[i].res.status = 401

\* C14: a login response carries a token exactly when a row is stored
\* under the email and the password verifies against its hash; then the
\* status is 200 and the token's subject is that row's id.
C14_TokenIffCredentialsVerify ==
  \A i \in Slots :
    (handlers[i].kind = "login" /\ Done(i)) =>
      /\ LookupFaithful(i)
      /\ handlers[i].res.hasToken <=>
           ( /\ IsLogin(i)
             /\ handlers[i].found
             /\ verifyPassword(handlers[i].password,
                               handlers[i].user.password_hash) )
      /\ handlers[i].res.hasToken =>
           /\ handlers[i].res.status = 200
           /\ handlers[i].res.token \in issued
           /\ Len(handlers[i].res.token) = 1
           /\ \A row \in SelectByEmail(handlers[i].email) :
                handlers[i].res.token[1].payload.userId = row.id
           /\ handlers[i].res.user.id = handlers[i].res.token[1].payload.userId
           /\ ValidlySigned(handlers[i].res.token[1])

\* the second registered user logged in and got a token for id 2
C14_Witness ==
  \E i \in Slots :
    /\ IsLogin(i) /\ Done(i)
    /\ handlers[i].res.hasToken
    /\ handlers[i].res.token[1].payload.userId = 2
    /\ SelectByEmail(handlers[i].email) # {}

\* ---- claims about the current-user route ----
\* the token segment of me request i and jwt.verify of it when i came
MeToken(i) == SegmentOf(handlers[i].header.s)
MeVerified(i) == jwtVerify(MeToken(i), JWT_SECRET, handlers[i].at)
ValidAt(i) == handlers[i].header.defined /\ ~MeVerified(i).threw

MeLookupStep(i) ==
  IsMe(i) /\ handlers[i].pc = "select" /\ handlers'[i].pc = "done"

\* C16: a valid, unexpired token passes the guard whether or not its user
\* still exists, and /me answers 404 "User not found" when the row is gone.
C16_DeletedUserNotFound ==
  /\ [](\A i \in Slots :
          (IsMe(i) /\ ValidAt(i)) =>
            /\ handlers[i].guard.state = "Authenticated"
            /\ handlers[i].guard.userId = MeVerified(i).value.userId
            /\ handlers[i].pc \in {"select", "done"}
            /\ handlers[i].res.status \in {0, 200, 404})
  /\ [][\A i \in Slots :
          (MeLookupStep(i) /\ SelectById(handlers[i].guard.userId) = {}) =>
            handlers'[i].res = UserNotFound]_vars

\* a token issued at login was used after the user's row was deleted
C16_Witness ==
  \E i \in Slots :
    /\ IsMe(i) /\ Done(i) /\ ValidAt(i)
    /\ MeToken(i) \in issued
    /\ handlers[i].guard.state = "Authenticated"
    /\ handlers[i].res = UserNotFound
    /\ \E k \in Slots : handlers[k].kind = "register"
                          /\ handlers[k].res.status = 201
                          /\ handlers[k].res.user.id = handlers[i].guard.userId

\* login j repeats the credentials of registration i and came after it
LoginAfter(i, j) ==
  /\ handlers[i].kind = "register" /\ handlers[i].res.status = 201
  /\ handlers[j].kind = "login" /\ Done(j)
  /\ i \in handlers[j].after
  /\ SameEmail(i, j) /\ handlers[i].password = handlers[j].password

\* C17: after a registration answered 201, while the user's row exists, a
\* later login with the same email and password is answered 200 with a
\* token, and /me with that token before its expiry is answered 200 with
\* the row of that email and the id returned at registration.
C17_RegisterLoginMe ==
  \A i, j \in Slots :
    (LoginAfter(i, j) /\ SelectById(handlers[i].res.user.id) # {}) =>
      /\ handlers[j].res.status = 200
      /\ handlers[j].res.hasToken
      /\ handlers[j].res.token[1].payload.userId = handlers[i].res.user.id
      /\ \A k \in Slots :
           ( /\ IsMe(k) /\ Done(k)
             /\ handlers[k].header = Str(<<Bearer, SP>> \o handlers[j].res.token)
             /\ handlers[k].at < handlers[j].res.token[1].payload.exp )
           => /\ handlers[k].res.status = 200
              /\ handlers[k].res.user.email = handlers[i].email
              /\ handlers[k].res.user.id = handlers[i].res.user.id

\* register, login, /me in a row, all answered with success
C17_Witness ==
  \E i, j, k \in Slots :
    /\ LoginAfter(i, j)
    /\ handlers[j].res.hasToken
    /\ IsMe(k) /\ Done(k)
    /\ handlers[k].header = Str(<<Bearer, SP>> \o handlers[j].res.token)
    /\ handlers[k].res.status = 200
    /\ handlers[k].res.user.id = handlers[i].res.user.id

\* ---- the hasher called directly ----
MaxHashes == 2        \* direct hashPassword calls in one behaviour

HashesMade == {hashLog[i].hash : i \in 1..Len(hashLog)}

\* hashPassword(password) is called; bcrypt draws a salt never drawn before
HashPassword(password) ==
  /\ Len(hashLog) < MaxHashes
  /\ hashLog' = Append(hashLog, [password |-> password,
                                 hash |-> hashPassword(password, nextSalt)])
  /\ nextSalt' = nextSalt + 1
  /\ UNCHANGED <<lastCompare, tokenVars, dbVars>>

\* verifyPassword(password, hash) is called
VerifyPassword(password, hash) ==
  /\ lastCompare' = [called |-> TRUE, password |-> password, hash |-> hash,
                     result |-> verifyPassword(password, hash)]
  /\ UNCHANGED <<nextSalt, hashLog, tokenVars, dbVars>>

HashNext ==
  \/ \E p \in Passwords : HashPassword(p)
  \/ \E p \in Passwords, h \in HashesMade \cup {MalformedHash} :
       VerifyPassword(p, h)

HashSpec == Init /\ [][HashNext]_vars

\* ---- claims about the credential hasher ----

\* C18: for a hash h made by hashPassword(p2), verifyPassword(p1, h) is true
\* exactly when p1 equals p2.
C18_VerifiesOnlyOwnPassword ==
  \A i \in 1..Len(hashLog) :
    (lastCompare.called /\ lastCompare.hash = hashLog[i].hash) =>
      (lastCompare.result <=> lastCompare.password = hashLog[i].password)

\* C19: two calls of hashPassword on the same password return different
\* hash strings, and the password verifies against each of them.
C19_SaltedHashesDiffer ==
  \A i, j \in 1..Len(hashLog) :
    (i # j /\ hashLog[i].password = hashLog[j].password) =>
      /\ hashLog[i].hash # hashLog[j].hash
      /\ verifyPassword(hashLog[i].password, hashLog[i].hash)
      /\ verifyPassword(hashLog[i].password, hashLog[j].hash)
      /\ (lastCompare.called /\ lastCompare.password = hashLog[i].password
            /\ lastCompare.hash \in {hashLog[i].hash, hashLog[j].hash})
           => lastCompare.result

\* one password was hashed twice and then verified against the second hash
C19_Witness ==
  /\ Len(hashLog) >= 2
  /\ hashLog[1].password = hashLog[2].password
  /\ hashLog[1].hash # hashLog[2].hash
  /\ lastCompare.called
  /\ lastCompare.password = hashLog[1].password
  /\ lastCompare.hash = hashLog[2].hash
  /\ lastCompare.result

\* ---- claims about the configuration ----
\* the secret the environment configuration supplies: process.env.JWT_SECRET
\* as it stands once dotenv.config() has run
ConfiguredSecret == boot.env

\* C26: whenever the environment configuration loaded at startup supplies a
\* secret, generateToken and verifyToken use it; the fallback secret is used
\* only when none is configured; issuing and verifying use the same secret.
C26_ConfiguredSecretUsed ==
  /\ ConfiguredSecret # "" =>
       /\ JWT_SECRET = ConfiguredSecret
       /\ \A u \in UserIds : generateToken(u)[1].sig.key = ConfiguredSecret
  /\ JWT_SECRET = FallbackSecret => ConfiguredSecret = ""
  /\ \A u \in UserIds : ~verifyToken(generateToken(u)).value.isNull

\* ---- claims about failures ----
\* the texts of the errors a handler can catch
ErrorTexts ==
  {AwaitError(pc) : pc \in {"select", "hash", "insert", "verify"}}
    \cup {"unique_violation"}

\* C21: when an awaited query or hashing call of the register, login or me
\* handler throws, the handler answers 500 with exactly {success: false,
\* message: "Internal server error"}, and nothing of the error is in the
\* response; a 500 is sent on no other path.
C21_UnexpectedFailure500 ==
  \A i \in Slots :
    /\ handlers[i].insertError # "" => handlers[i].caught = handlers[i].insertError
    /\ handlers[i].caught # "" =>
         /\ Done(i)
         /\ handlers[i].sent = 1
         /\ handlers[i].res = Response(500, FALSE, "Internal server error")
         /\ handlers[i].res.message \notin ErrorTexts
         /\ handlers[i].caught \in ErrorTexts
    /\ handlers[i].res.status = 500 => handlers[i].caught # ""

\* a registration whose hashing failed and a login whose lookup could not
\* reach the database were both answered 500
C21_Witness ==
  \E i, j \in Slots :
    /\ handlers[i].kind = "register" /\ handlers[i].hashCalls = 1
    /\ handlers[i].insertCalls = 0
    /\ handlers[i].caught = AwaitError("hash")
    /\ handlers[i].res = InternalError
    /\ handlers[j].kind = "login" /\ handlers[j].compareCalls = 0
    /\ handlers[j].caught = AwaitError("select")
    /\ handlers[j].res = InternalError

\* the body of request i fails the schema of its route
BadBody(i) ==
  \/ /\ handlers[i].kind = "register"
     /\ ~IsEmail(handlers[i].email) \/ handlers[i].password.len < 6
  \/ /\ handlers[i].kind = "login"
     /\ ~IsEmail(handlers[i].email) \/ handlers[i].password.len = 0

\* C22: a register or login request whose body fails validation is answered
\* 400 "Validation error" with the field errors, never 500, and no query,
\* no hashing, no comparison and no token is made for it.
C22_ValidationAnswered400 ==
  \A i \in Slots :
    BadBody(i) =>
      /\ Done(i)
      /\ handlers[i].sent = 1
      /\ handlers[i].res.status = 400
      /\ handlers[i].res.message = "Validation error"
      /\ handlers[i].res.hasErrors
      /\ ~handlers[i].res.hasToken
      /\ handlers[i].caught = ""
      /\ handlers[i].selectCalls = 0
      /\ handlers[i].hashCalls = 0
      /\ handlers[i].insertCalls = 0
      /\ handlers[i].compareCalls = 0
      /\ handlers[i].tokenCalls = 0

\* a registration with a five-byte password and a login with an empty one
\* were answered 400
C22_Witness ==
  \E i, j \in Slots :
    /\ handlers[i].kind = "register" /\ handlers[i].password = Short
    /\ IsEmail(handlers[i].email)
    /\ handlers[i].res = ValidationError
    /\ handlers[j].kind = "login" /\ handlers[j].password = Empty
    /\ handlers[j].res = ValidationError

\* ---- claims about what responses carry ----
\* the user fields each route may return
PublicFields(kind) ==
  CASE kind = "register" -> {"id", "email", "created_at"}
    [] kind = "login" -> {"id", "email"}
    [] kind = "me" -> {"id", "email", "name", "created_at"}
    [] OTHER -> {}

\* C23: no response of register, login or me carries a password hash or a
\* password: a success carries exactly the public fields of its route (and
\* login its token, whose payload is user id, issue and expiry time), every
\* other response no user at all.
C23_NoSecretInResponse ==
  \A i \in Slots :
    handlers[i].sent > 0 =>
      /\ "password_hash" \notin handlers[i].res.user.fields
      /\ handlers[i].res.user.password_hash = MalformedHash
      /\ handlers[i].res.success =>
           handlers[i].res.user.fields = PublicFields(handlers[i].kind)
      /\ ~handlers[i].res.success => handlers[i].res.user = NoUser
      /\ handlers[i].res.message \notin {p.head : p \in Passwords}
      /\ handlers[i].res.message \notin {p.tail : p \in {LongA, LongB}}
      /\ handlers[i].res.hasToken =>
           /\ handlers[i].kind = "login"
           /\ DOMAIN handlers[i].res.token[1].payload = {"userId", "iat", "exp"}

\* a login read the row with its hash and answered with id and email only
C23_Witness ==
  \E i \in Slots :
    /\ handlers[i].kind = "login" /\ handlers[i].res.status = 200
    /\ handlers[i].user.password_hash.wellFormed
    /\ handlers[i].res.user.fields = {"id", "email"}
    /\ handlers[i].res.user.password_hash = MalformedHash

\* ---- claims about the credential store ----
\* the step adds row to the table: the insert of a registration, answered 201
CreatedBy(i, row) ==
  /\ handlers[i].kind = "register" /\ handlers[i].pc = "insert"
  /\ handlers'[i].res.status = 201
  /\ handlers'[i].res.user.id = row.id
  /\ row.email = handlers[i].email
  /\ row.password_hash = handlers[i].passwordHash

\* C24: a user id names one row; a row, once stored, is in the table
\* unchanged in every later state; and a row comes into the table only by
\* the insert of a registration that is answered 201.
C24_CredentialImmutable ==
  /\ [](\A r1, r2 \in users : r1.id = r2.id => r1 = r2)
  /\ [][ /\ users \subseteq users'
         /\ Cardinality(users' \ users) <= 1
         /\ \A row \in users' \ users :
              /\ \A old \in users : old.id # row.id
              /\ \E i \in Slots : CreatedBy(i, row) ]_vars

\* a stored credential outlived a failed login and a refused registration
\* for its email
C24_Witness ==
  \E row \in users, i, j \in Slots :
    /\ handlers[i].kind = "login" /\ handlers[i].email = row.email
    /\ handlers[i].res = InvalidCredentials /\ handlers[i].found
    /\ handlers[j].kind = "register" /\ handlers[j].email = row.email
    /\ handlers[j].res = EmailExists
    /\ row.id = 1

\* the registrations of email e that were answered 201
Registered(e) ==
  {i \in Slots : /\ handlers[i].kind = "register" /\ handlers[i].email = e
                 /\ handlers[i].res.status = 201}

\* C25: however the steps of registrations for one email interleave, at
\* most one of their inserts succeeds and at most one is answered 201; the
\* table never holds two rows with one email.
C25_OneCredentialPerEmail ==
  /\ \A e \in ValidEmails :
       /\ Cardinality(SelectByEmail(e)) <= 1
       /\ Cardinality(Registered(e)) <= 1
  /\ \A i \in Slots :
       (handlers[i].kind = "register" /\ Done(i) /\ handlers[i].insertCalls = 1)
         => (handlers[i].res.status = 201 <=> handlers[i].insertError = "")

\* two registrations of one email both passed the existence check; one was
\* answered 201, the other's insert was refused by the constraint
C25_Witness ==
  \E i, j \in Slots :
    /\ i # j /\ SameEmail(i, j)
    /\ handlers[i].kind = "register" /\ handlers[j].kind = "register"
    /\ handlers[i].hashCalls = 1 /\ handlers[j].hashCalls = 1
    /\ ~handlers[i].found /\ ~handlers[j].found
    /\ handlers[i].res.status = 201
    /\ handlers[j].insertError = "unique_violation"
    /\ Cardinality(SelectByEmail(handlers[i].email)) = 1

\* ---- claims about what the guard lets through ----
\* C27: the lookup of /me is sent only for a request the guard has put in
\* the Authenticated state, which it does only for a token that verifies; a
\* request the guard rejected is answered by the guard and no lookup is made.
C27_LookupOnlyWhenAuthenticated ==
  \A i \in Slots :
    IsMe(i) =>
      /\ handlers[i].guard.state \in {"Authenticated", "Rejected"}
      /\ handlers[i].selectCalls > 0 =>
           /\ handlers[i].guard.state = "Authenticated"
           /\ handlers[i].guard.nextCalls = 1
           /\ handlers[i].guard.userIdSet
           /\ ValidAt(i)
      /\ handlers[i].guard.state = "Rejected" =>
           /\ handlers[i].guard.nextCalls = 0
           /\ handlers[i].selectCalls = 0
           /\ ~handlers[i].found
           /\ Done(i)
           /\ handlers[i].sent = 1
           /\ handlers[i].res.status = 401

\* a token with a rewritten payload was rejected while its user's row was
\* in the table, and the table was not asked
C27_Witness ==
  \E i \in Slots :
    /\ IsMe(i)
    /\ handlers[i].guard.state = "Rejected"
    /\ MeToken(i) \in {<<a>> : a \in Tampered}
    /\ MeToken(i) \notin issued
    /\ SelectById(MeToken(i)[1].payload.userId) # {}
    /\ handlers[i].selectCalls = 0

\* C29: every row of the table holds the hash of a password of six bytes or
\* more, the one its registration sent; login sends any non-empty password
\* on to the lookup and the comparison.
C29_StoredPasswordsLongEnough ==
  /\ \A row \in users :
       \E i \in Slots :
         /\ handlers[i].kind = "register" /\ handlers[i].res.status = 201
         /\ handlers[i].res.user.id = row.id
         /\ handlers[i].password.len >= 6
         /\ \E salt \in 1..nextSalt :
              row.password_hash = hashPassword(handlers[i].password, salt)
  /\ \A i \in Slots :
       ( /\ handlers[i].kind = "login" /\ IsEmail(handlers[i].email)
         /\ handlers[i].password.len >= 1 )
       => /\ handlers[i].selectCalls = 1
          /\ handlers[i].res # ValidationError
          /\ (handlers[i].found /\ handlers[i].caught = "") =>
               handlers[i].compareCalls = 1

\* a five-byte password was refused at registration and compared at login
C29_Witness ==
  \E i, j \in Slots :
    /\ handlers[i].kind = "register" /\ handlers[i].password = Short
    /\ handlers[i].res = ValidationError
    /\ handlers[j].kind = "login" /\ handlers[j].password = Short
    /\ handlers[j].found /\ handlers[j].compareCalls = 1
    /\ handlers[j].res = InvalidCredentials
    /\ users # {}

\* C30: while the secret is unchanged and known to the server alone, a
\* request is authenticated as user u only with a token that a login of
\* user u, answered 200 before, returned less than the lifetime ago.
C30_AuthenticatedOnlyAfterLogin ==
  \A i \in Slots :
    (IsMe(i) /\ handlers[i].guard.state = "Authenticated") =>
      \E j \in handlers[i].after :
        /\ handlers[j].kind = "login" /\ handlers[j].res.status = 200
        /\ handlers[j].res.hasToken
        /\ handlers[j].res.token = handlers[i].guard.token.s
        /\ handlers[j].res.user.id = handlers[i].guard.userId
        /\ handlers[j].user.id = handlers[i].guard.userId
        /\ handlers[j].res.token[1].payload.iat <= handlers[i].at
        /\ handlers[i].at <
             handlers[j].res.token[1].payload.iat + JWT_EXPIRES_IN

\* user 1 was authenticated in the last second of the token's life
C30_Witness ==
  \E i \in Slots :
    /\ IsMe(i) /\ handlers[i].guard.state = "Authenticated"
    /\ handlers[i].guard.userId = 1
    /\ handlers[i].guard.token.s \in issued
    /\ handlers[i].at + 1 = handlers[i].guard.token.s[1].payload.exp
    /\ handlers[i].res.status = 200

\* ---- claims about requests for different users ----
\* the register and login requests that have been answered
AnsweredAuth ==
  {i \in Slots : handlers[i].kind \in {"register", "login"} /\ Done(i)}

\* i and j were being handled at the same time
Overlap(i, j) ==
  i # j /\ i \notin handlers[j].after /\ j \notin handlers[i].after

\* a handler run from its first statement to its response with nothing in
\* between, on a table st.table whose id sequence stands at st.seq
RunRegister(st, email, password) ==
  LET h0 == registerStart(Incoming("register", email, password, Undefined))
      h1 == registerSelected(h0, EmailRows(st.table, email))
      h2 == registerHashed(h1, hashPassword(password, 0))
      result == Insert(st.table, st.seq, 0, email, h2.passwordHash, "null")
      h3 == registerInserted(h2, result)
  IN  IF h0.pc = "done" THEN [table |-> st.table, seq |-> st.seq, res |-> h0.res]
      ELSE IF h1.pc = "done"
        THEN [table |-> st.table, seq |-> st.seq, res |-> h1.res]
      ELSE [table |-> result.table, seq |-> st.seq + 1, res |-> h3.res]

RunLogin(st, email, password) ==
  LET h0 == loginStart(Incoming("login", email, password, Undefined))
      h1 == loginSelected(h0, EmailRows(st.table, email))
      h2 == loginVerified(h1, verifyPassword(password, h1.user.password_hash),
                          generateToken(h1.user.id))
  IN  [table |-> st.table, seq |-> st.seq,
       res |-> IF h0.pc = "done" THEN h0.res
               ELSE IF h1.pc = "done" THEN h1.res ELSE h2.res]

\* the requests order[1], .., order[k] run one after the other, from the
\* empty table
RECURSIVE SerialRun(_, _)
SerialRun(order, k) ==
  IF k = 0 THEN [table |-> {}, seq |-> 1, res |-> <<>>]
  ELSE LET prev == SerialRun(order, k - 1)
           h == handlers[order[k]]
           out == IF h.kind = "register"
                    THEN RunRegister(prev, h.email, h.password)
                    ELSE RunLogin(prev, h.email, h.password)
       IN  [table |-> out.table, seq |-> out.seq,
            res |-> Append(prev.res, out.res)]

\* a response and a table without what the clock and the random salt put
\* into them
Outcome(res) ==
  [status |-> res.status, success |-> res.success, message |-> res.message,
   hasErrors |-> res.hasErrors, hasToken |-> res.hasToken,
   subject |-> IF res.hasToken THEN res.token[1].payload.userId ELSE 0,
   fields |-> res.user.fields, id |-> res.user.id, email |-> res.user.email]
StoreView(table) ==
  {[id |-> row.id, email |-> row.email, name |-> row.name,
    key |-> row.password_hash.digest.key] : row \in table}

\* the orders in which the requests of S can be run one after the other
\* without reversing two that did not overlap
SerialOrders(S) ==
  {order \in [1..Cardinality(S) -> S] :
     /\ \A a, b \in 1..Cardinality(S) : a # b => order[a] # order[b]
     /\ \A a, b \in 1..Cardinality(S) :
          order[a] \in handlers[order[b]].after => a < b}

Steps(i) == handlers'[i] # handlers[i]

\* the step is the one in which registration i is answered 201
Answers201(i) ==
  /\ handlers[i].kind = "register" /\ ~Done(i)
  /\ handlers'[i].pc = "done" /\ handlers'[i].res.status = 201

\* C31: a step of a login, of a /me request or of a registration that is
\* answered with a validation error, a conflict or a 500 leaves the table
\* as it is; the step that answers a registration 201 adds one row, the one
\* returned; the table has as many rows as registrations were answered 201.
C31_OnlyCreatedRegistrationAddsRow ==
  /\ [](Cardinality(users) =
          Cardinality({i \in Slots : handlers[i].kind = "register"
                                       /\ handlers[i].res.status = 201}))
  /\ [][ /\ \A i \in Slots :
              (Steps(i) /\ ~Answers201(i)) => users' = users
         /\ \A i \in Slots :
              Answers201(i) =>
                \E row \in users' \ users :
                  /\ users' = users \cup {row}
                  /\ row.id = handlers'[i].res.user.id
                  /\ row.email = handlers[i].email
         /\ (\A i \in Slots : ~Steps(i)) => users' = users ]_vars

\* one registration was answered 201 and a second for the same email,
\* refused by the constraint, 500; the table has the one row
C31_Witness ==
  \E i, j \in Slots :
    /\ handlers[i].kind = "register" /\ handlers[i].res.status = 201
    /\ handlers[j].kind = "register" /\ handlers[j].res.status = 500
    /\ handlers[j].caught = "unique_violation"
    /\ users = {handlers[i].user}
    /\ nextId = 3

\* ---- claims about termination ----
\* C32: when every awaited call is settled in the end, every register,
\* login and me request gets a response, and on every path (validation
\* failure, guard rejection, unexpected error included) exactly one: none
\* is sent twice, a request that returned has been answered, an answered
\* request is not touched again, and in the end no request is left waiting.
C32_ExactlyOneResponse ==
  /\ [](\A i \in Slots :
          /\ handlers[i].sent <= 1
          /\ Done(i) <=> handlers[i].sent = 1
          /\ handlers[i].sent = 1 => handlers[i].res.status # 0)
  /\ [][\A i \in Slots : Done(i) => handlers'[i] = handlers[i]]_vars
  /\ <>[](\A i \in Slots :
            handlers[i].kind # "none" => (Done(i) /\ handlers[i].sent = 1))

\* a request failing validation, one rejected by the guard and one whose
\* query failed were each answered once
C32_Witness ==
  \E i, j, k \in Slots :
    /\ handlers[i].kind = "register" /\ handlers[i].res = ValidationError
    /\ handlers[j].kind = "me" /\ handlers[j].guard.state = "Rejected"
    /\ handlers[k].kind = "login" /\ handlers[k].caught # ""
    /\ \A s \in {i, j, k} : handlers[s].sent = 1

====
